---- MODULE Spec2Model ----
(***************************************************************************)
(* Model of prefect_slurm/slurm.py: the CLI based slurm backend (submit,   *)
(* status, kill over a remote shell), the infrastructure pid codec and the *)
(* job monitor SlurmJob._watch_job driven by SlurmJob.run.                 *)
(*                                                                         *)
(* Text is modelled as a sequence of one-character strings so that         *)
(* formatting, splitting and integer parsing are computed, not assumed.    *)
(***************************************************************************)
EXTENDS Integers, Sequences, FiniteSets, TLC

(***************************************************************************)
(* Bounds of the model.                                                    *)
(***************************************************************************)
MaxPolls == 3
MaxKills == 1
MaxTime == 60
ClockStep == 30
MaxJobId == 24
MaxOptions == 2
QueryTime == 10

(***************************************************************************)
(* Optional values: None is the empty tuple, Some(x) a one-element tuple.  *)
(***************************************************************************)
None == <<>>
Some(x) == <<x>>

(***************************************************************************)
(* Text helpers.                                                           *)
(***************************************************************************)
Whitespace == {" ", "\n", "\t", "\r"}
DigitChars == <<"0", "1", "2", "3", "4", "5", "6", "7", "8", "9">>
DigitSet == {DigitChars[i] : i \in 1..10}
DigitVal(c) == (CHOOSE i \in 1..10 : DigitChars[i] = c) - 1

RECURSIVE StrNat(_)
StrNat(n) == IF n < 10 THEN <<DigitChars[n + 1]>>
             ELSE StrNat(n \div 10) \o <<DigitChars[(n % 10) + 1]>>

\* str(n) / f"{n}" for an int: the decimal rendering
Str(n) == IF n < 0 THEN <<"-">> \o StrNat(0 - n) ELSE StrNat(n)

RECURSIVE LStrip(_)
LStrip(s) == IF s # <<>> /\ Head(s) \in Whitespace THEN LStrip(Tail(s)) ELSE s

RECURSIVE RStrip(_)
RStrip(s) == IF s # <<>> /\ s[Len(s)] \in Whitespace
             THEN RStrip(SubSeq(s, 1, Len(s) - 1)) ELSE s

\* str.strip()
Strip(s) == RStrip(LStrip(s))

RECURSIVE SplitAcc(_, _, _)
SplitAcc(s, cur, acc) ==
    IF s = <<>> THEN (IF cur = <<>> THEN acc ELSE Append(acc, cur))
    ELSE IF Head(s) \in Whitespace
         THEN SplitAcc(Tail(s), <<>>, IF cur = <<>> THEN acc ELSE Append(acc, cur))
         ELSE SplitAcc(Tail(s), Append(cur, Head(s)), acc)

\* str.split() with no argument: runs of whitespace separate the tokens
Split(s) == SplitAcc(s, <<>>, <<>>)

RECURSIVE SplitOnAcc(_, _, _, _)
SplitOnAcc(s, sep, cur, acc) ==
    IF s = <<>> THEN Append(acc, cur)
    ELSE IF Head(s) = sep
         THEN SplitOnAcc(Tail(s), sep, <<>>, Append(acc, cur))
         ELSE SplitOnAcc(Tail(s), sep, Append(cur, Head(s)), acc)

\* str.split(sep) with a one-character separator: empty parts are kept
SplitOn(s, sep) == SplitOnAcc(s, sep, <<>>, <<>>)

RECURSIVE Join(_, _)
\* sep.join(parts)
Join(sep, parts) ==
    IF parts = <<>> THEN <<>>
    ELSE IF Len(parts) = 1 THEN parts[1]
    ELSE parts[1] \o sep \o Join(sep, Tail(parts))

RECURSIVE DigitsValue(_, _)
DigitsValue(s, acc) ==
    IF s = <<>> THEN acc
    ELSE IF Head(s) = "_" THEN DigitsValue(Tail(s), acc)
    ELSE DigitsValue(Tail(s), 10 * acc + DigitVal(Head(s)))

\* the digit part of an integer literal accepted by int(): digits with single
\* underscores between them
IsDigits(s) ==
    /\ s # <<>>
    /\ \A i \in 1..Len(s) : s[i] \in DigitSet \cup {"_"}
    /\ s[1] # "_"
    /\ s[Len(s)] # "_"
    /\ \A i \in 1..(Len(s) - 1) : ~(s[i] = "_" /\ s[i + 1] = "_")

\* int(text): [ok |-> TRUE, val |-> n], or [ok |-> FALSE, val |-> 0] for the
\* ValueError raised on text that is no integer literal
ParseInt(text) ==
    LET t == Strip(text)
        signed == t # <<>> /\ t[1] \in {"+", "-"}
        body == IF signed THEN Tail(t) ELSE t
    IN IF IsDigits(body)
       THEN [ok |-> TRUE,
             val |-> IF signed /\ t[1] = "-" THEN 0 - DigitsValue(body, 0)
                     ELSE DigitsValue(body, 0)]
       ELSE [ok |-> FALSE, val |-> 0]

(***************************************************************************)
(* Text constants of the source.                                           *)
(***************************************************************************)
S_sbatch == <<"s", "b", "a", "t", "c", "h">>
S_parsable_flag == <<"-", "-", "p", "a", "r", "s", "a", "b", "l", "e">>
S_scancel == <<"s", "c", "a", "n", "c", "e", "l">>
S_squeue_job == <<"s", "q", "u", "e", "u", "e", " ", "-", "-", "j", "o", "b", "=">>
S_squeue_format == <<" ", "-", "-", "F", "o", "r", "m", "a", "t", "=", "S", "t", "a", "t", "e", ",", "e", "x", "i", "t", "_", "c", "o", "d", "e", " ", "-", "-", "n", "o", "h", "e", "a", "d", "e", "r">>
S_PENDING == <<"P", "E", "N", "D", "I", "N", "G">>
S_COMPLETED == <<"C", "O", "M", "P", "L", "E", "T", "E", "D">>
S_PREEMPTED == <<"P", "R", "E", "E", "M", "P", "T", "E", "D">>
S_FAILED == <<"F", "A", "I", "L", "E", "D">>
S_RUNNING == <<"R", "U", "N", "N", "I", "N", "G">>
S_chdir == <<"c", "h", "d", "i", "r">>
S_output == <<"o", "u", "t", "p", "u", "t">>
S_error == <<"e", "r", "r", "o", "r">>
S_output_log == <<"o", "u", "t", "p", "u", "t", ".", "l", "o", "g">>
S_error_log == <<"e", "r", "r", "o", "r", ".", "l", "o", "g">>

\* class SlurmJobStatus
SlurmJobStatus == {"COMPLETED", "RUNNING", "FAILED", "PREEMPTED", "PENDING",
                   "UNDEFINED", "UNKNOWN"}

\* default of the grace_seconds parameter of submit, status and kill
DefaultGraceSeconds == 30
\* default of the polling_seconds parameter of _watch_job
polling_seconds == 30

(***************************************************************************)
(* The remote executor: what one remote command can yield.  Either a       *)
(* completed process (exit status and stdout) or an error raised by the    *)
(* connection or by the timeout of the command.                            *)
(***************************************************************************)
Completed(e, out) == [kind |-> "ok", exit_status |-> e, stdout |-> out]
Raises(err) == [kind |-> err, exit_status |-> 0, stdout |-> <<>>]
RemoteErrors == {"TimeoutError", "ConnectionError"}

Out_pending == <<"P", "E", "N", "D", "I", "N", "G", " ", "0", ":", "0", "\n">>
Out_running == <<"R", "U", "N", "N", "I", "N", "G", " ", " ", " ", "0", ":", "0", " ", " ", "\n">>
Out_completed == <<"C", "O", "M", "P", "L", "E", "T", "E", "D", " ", "0", ":", "0", "\n">>
Out_failed == <<"F", "A", "I", "L", "E", "D", " ", "1", ":", "0", "\n">>
Out_preempted == <<"P", "R", "E", "E", "M", "P", "T", "E", "D", " ", "0", ":", "0", "\n">>
Out_cancelled == <<"C", "A", "N", "C", "E", "L", "L", "E", "D", " ", "0", ":", "1", "5", "\n">>
Out_lowercase == <<"r", "u", "n", "n", "i", "n", "g", " ", "0", ":", "0", "\n">>
Out_empty == <<>>
Out_one_token == <<"R", "U", "N", "N", "I", "N", "G", "\n">>
Out_padded == <<" ", " ", "F", "A", "I", "L", "E", "D", "\t", "1", ":", "0", " ", "\n">>

\* what a squeue invocation can yield
StatusResults ==
    {Completed(0, o) : o \in {Out_pending, Out_running, Out_completed, Out_failed,
                              Out_preempted, Out_cancelled, Out_lowercase,
                              Out_empty, Out_one_token, Out_padded}}
    \cup {Completed(1, o) : o \in {Out_empty, Out_running, Out_failed}}
    \cup {Raises(e) : e \in RemoteErrors}

Sb_123 == <<"1", "2", "3", "\n">>
Sb_7 == <<" ", "7">>
Sb_cluster == <<"1", "2", ";", "h", "p", "c", "\n">>

\* what an sbatch invocation can yield
SubmitResults ==
    {Completed(0, Sb_123), Completed(0, Sb_7), Completed(0, Sb_cluster),
     Completed(1, Out_empty)}
    \cup {Raises(e) : e \in RemoteErrors}

\* what an scancel invocation can yield
KillResults == {Completed(0, Out_empty), Completed(1, Out_empty)}
               \cup {Raises(e) : e \in RemoteErrors}

(***************************************************************************)
(* CLIBasedSlurmBackend: the commands.                                     *)
(***************************************************************************)
\* the flag without the test for None: the value is always formatted
SubmitFlag_NoneFormatted(kv) ==
    IF kv[2] = None THEN <<"-", "-">> \o kv[1] \o <<"=", "N", "o", "n", "e">>
    ELSE <<"-", "-">> \o kv[1] \o <<"=">> \o kv[2][1]

\* one flag of the sbatch command; kv = <<key, value>>, value None or Some(text)
SubmitFlag(kv) == IF kv[2] = None THEN <<"-", "-">> \o kv[1]
                  ELSE <<"-", "-">> \o kv[1] \o <<"=">> \o kv[2][1]

_submit_command(slurm_kwargs) ==
    Join(<<" ">>, <<S_sbatch, S_parsable_flag>>
                  \o [i \in 1..Len(slurm_kwargs) |-> SubmitFlag(slurm_kwargs[i])])

\* f"scancel ${jobid}": the dollar sign is literal text of the f-string
_kill_command(jobid) == S_scancel \o <<" ", "$">> \o Str(jobid)

_status_command(jobid) == S_squeue_job \o Str(jobid) \o S_squeue_format

\* the mapping with the comparison done on the upper-cased token
StatusOfToken_IgnoresCase(tok) ==
    LET up(c) == CASE c = "r" -> "R" [] c = "u" -> "U" [] c = "n" -> "N"
                   [] c = "i" -> "I" [] c = "g" -> "G" [] OTHER -> c
        t == [i \in 1..Len(tok) |-> up(tok[i])]
    IN IF t = S_PENDING THEN "PENDING"
       ELSE IF t = S_COMPLETED THEN "COMPLETED"
       ELSE IF t = S_PREEMPTED THEN "PREEMPTED"
       ELSE IF t = S_FAILED THEN "FAILED"
       ELSE IF t = S_RUNNING THEN "RUNNING"
       ELSE "UNKNOWN"

\* the mapping of the state token in CLIBasedSlurmBackend.status
StatusOfToken(tok) ==
    IF tok = S_PENDING THEN "PENDING"
    ELSE IF tok = S_COMPLETED THEN "COMPLETED"
    ELSE IF tok = S_PREEMPTED THEN "PREEMPTED"
    ELSE IF tok = S_FAILED THEN "FAILED"
    ELSE IF tok = S_RUNNING THEN "RUNNING"
    ELSE "UNKNOWN"

\* status that unpacks only the state token, so that one token is enough
backend_status_OneTokenEnough(r) ==
    IF r.kind # "ok" THEN r.kind
    ELSE IF r.exit_status # 0 THEN "UNDEFINED"
    ELSE LET toks == Split(r.stdout)
         IN IF Len(toks) < 1 THEN "UNDEFINED"
            ELSE StatusOfToken(toks[1])

\* status without the try/except of lines 134-150: the unpacking error escapes
backend_status_ParseErrorEscapes(r) ==
    IF r.kind # "ok" THEN r.kind
    ELSE IF r.exit_status # 0 THEN "UNDEFINED"
    ELSE LET toks == Split(r.stdout)
             firstTwo == SubSeq(toks, 1, IF Len(toks) < 2 THEN Len(toks) ELSE 2)
         IN IF Len(firstTwo) # 2 THEN "ValueError"
            ELSE StatusOfToken(firstTwo[1])

\* status without the exit status test of lines 131-132
backend_status_IgnoresExitStatus(r) ==
    IF r.kind # "ok" THEN r.kind
    ELSE LET toks == Split(r.stdout)
             firstTwo == SubSeq(toks, 1, IF Len(toks) < 2 THEN Len(toks) ELSE 2)
         IN IF Len(firstTwo) # 2 THEN "UNDEFINED"
            ELSE StatusOfToken(firstTwo[1])

\* CLIBasedSlurmBackend.status applied to the outcome r of the squeue command:
\* a SlurmJobStatus, or the name of the error that propagates to the caller
backend_status(r) ==
    IF r.kind # "ok" THEN r.kind
    ELSE IF r.exit_status # 0 THEN "UNDEFINED"
    ELSE LET toks == Split(r.stdout)
             firstTwo == SubSeq(toks, 1, IF Len(toks) < 2 THEN Len(toks) ELSE 2)
         IN IF Len(firstTwo) # 2 THEN "UNDEFINED"
            ELSE StatusOfToken(firstTwo[1])

\* submit that answers job id 0 when stdout is no integer
backend_submit_DefaultsToZero(r) ==
    IF r.kind # "ok" THEN [ok |-> FALSE, jobid |-> 0, error |-> r.kind]
    ELSE LET p == ParseInt(r.stdout)
         IN [ok |-> TRUE, jobid |-> p.val, error |-> "none"]

\* CLIBasedSlurmBackend.submit applied to the outcome r of the sbatch command:
\* [ok |-> TRUE, jobid |-> n], or ok = FALSE with the error that propagates
backend_submit(r) ==
    IF r.kind # "ok" THEN [ok |-> FALSE, jobid |-> 0, error |-> r.kind]
    ELSE LET p == ParseInt(r.stdout)
         IN IF p.ok THEN [ok |-> TRUE, jobid |-> p.val, error |-> "none"]
            ELSE [ok |-> FALSE, jobid |-> 0, error |-> "ValueError"]

(***************************************************************************)
(* SlurmJob: the infrastructure pid codec.                                 *)
(***************************************************************************)
\* the pid with its two parts in the wrong order
_get_infrastructure_pid_Swapped(h, jobid) == Str(jobid) \o <<":">> \o h

_get_infrastructure_pid(h, jobid) == h \o <<":">> \o Str(jobid)

\* the pid split at its last colon only (rsplit(":", 1))
_parse_infrastructure_pid_LastColon(infrastructure_pid) ==
    LET parts == SplitOn(infrastructure_pid, ":")
    IN IF Len(parts) < 2 THEN [ok |-> FALSE, hostname |-> <<>>, jobid |-> 0]
       ELSE LET p == ParseInt(parts[Len(parts)])
            IN IF p.ok
               THEN [ok |-> TRUE,
                     hostname |-> Join(<<":">>, SubSeq(parts, 1, Len(parts) - 1)),
                     jobid |-> p.val]
               ELSE [ok |-> FALSE, hostname |-> <<>>, jobid |-> 0]

_parse_infrastructure_pid(infrastructure_pid) ==
    LET parts == SplitOn(infrastructure_pid, ":")
    IN IF Len(parts) # 2 THEN [ok |-> FALSE, hostname |-> <<>>, jobid |-> 0]
       ELSE LET p == ParseInt(parts[2])
            IN IF p.ok THEN [ok |-> TRUE, hostname |-> parts[1], jobid |-> p.val]
               ELSE [ok |-> FALSE, hostname |-> <<>>, jobid |-> 0]

\* dict item assignment d[k] = v on an insertion-ordered dict
DictSet(d, k, v) ==
    IF \E i \in 1..Len(d) : d[i][1] = k
    THEN [i \in 1..Len(d) |-> IF d[i][1] = k THEN <<k, v>> ELSE d[i]]
    ELSE Append(d, <<k, v>>)

(***************************************************************************)
(* Configuration of the SlurmJob block.                                    *)
(***************************************************************************)
host == <<"h", "p", "c">>
wdir == <<".", "/", "r", "u", "n">>
\* the slurm_kwargs field as configured: {"nodes": "1", "parsable": None}
slurm_kwargs_field ==
    << <<(<<"n", "o", "d", "e", "s">>), Some(<<"1">>)>>,
       <<(<<"p", "a", "r", "s", "a", "b", "l", "e">>), None>> >>

\* the slurm_kwargs that run hands to submit: chdir, output and error are set
run_slurm_kwargs ==
    DictSet(DictSet(DictSet(slurm_kwargs_field, S_chdir, Some(wdir)),
                    S_output, Some(S_output_log)),
            S_error, Some(S_error_log))

\* values of the grace_seconds argument a caller hands to SlurmJob.kill
GraceValues == {5, 30}

(***************************************************************************)
(* State.                                                                  *)
(***************************************************************************)
VARIABLES
    pc,             \* position of run / _watch_job
    jobid,          \* run: the job id returned by submit (None before)
    pid,            \* run: the infrastructure pid reported to the caller
    completed,      \* _watch_job: loop flag
    submitted,      \* _watch_job: the job has been seen on the queue
    startWatching,  \* _watch_job: time.time() at the start of the watch
    status,         \* _watch_job: the status of the current iteration
    retval,         \* the value returned by _watch_job (None before)
    error,          \* the error that ended run, "none" if there is none
    now,            \* the clock read by time.time()
    wakeAt,         \* end of the anyio.sleep in progress (None if none)
    result,         \* the outcome of the squeue command being reduced
    obs,            \* history: the statuses returned by the polls so far
    polls,          \* history: number of status queries issued
    sleeps,         \* history: number of sleeps started
    inflight,       \* history: number of status queries awaiting their result
    cmds,           \* history: the remote commands issued, with their issuer
    kills,          \* history: number of SlurmJob.kill calls
    killResult,     \* history: outcome of the last scancel command
    killOutcome,    \* history: how the last SlurmJob.kill call ended
    killGrace,      \* history: the grace_seconds argument of the last kill call
    killedAt,       \* history: the number of polls answered before the last kill call
    submitResult,   \* history: the outcome of the sbatch command (None before)
    settled,        \* the scheduler reports only final statuses from now on
    cleanup,        \* run after the watch: "pending", "done" or "raised"
    runResult,      \* the SlurmJobResult returned by run (None before)
    logged,         \* the failures run has written to its error log
    fsFailures,     \* history: the file system operations that failed
    pure            \* input, stage and output of a function applied on its own

watchVars == <<completed, submitted, startWatching, status, retval, wakeAt,
               result, obs, polls, sleeps, inflight>>
runVars == <<pc, jobid, pid, error>>
killVars == <<kills, killResult, killOutcome>>
afterVars == <<cleanup, runResult, logged, fsFailures>>
vars == <<pc, jobid, pid, completed, submitted, startWatching, status, retval,
          error, now, wakeAt, result, obs, polls, sleeps, inflight, cmds,
          kills, killResult, killOutcome, killGrace, killedAt, submitResult, settled,
          cleanup, runResult, logged, fsFailures, pure>>

\* the value of pure while no function is applied on its own
Idle == [kind |-> "none", stage |-> "none"]

Cmd(by, text, timeout) == [by |-> by, cmd |-> text, timeout |-> timeout]

\* the state of a SlurmJob block on which run has just been called
InitRun ==
    /\ pc = "submit"
    /\ jobid = None
    /\ pid = None
    /\ completed = FALSE
    /\ submitted = FALSE
    /\ startWatching = None
    /\ status = "unset"
    /\ retval = None
    /\ error = "none"
    /\ now = 0
    /\ wakeAt = None
    /\ result = None
    /\ obs = <<>>
    /\ polls = 0
    /\ sleeps = 0
    /\ inflight = 0
    /\ cmds = {}
    /\ kills = 0
    /\ killResult = None
    /\ killOutcome = "none"
    /\ killGrace = None
    /\ killedAt = None
    /\ submitResult = None
    /\ settled = FALSE
    /\ cleanup = "pending"
    /\ runResult = None
    /\ logged = {}
    /\ fsFailures = {}

Init == InitRun /\ pure = Idle

(***************************************************************************)
(* SlurmJob.run up to the start of the watch.                              *)
(***************************************************************************)
\* run: submit the job, encode the pid and report it; r is what sbatch yields
Submit(r) ==
    /\ pc = "submit"
    /\ cmds' = cmds \cup {Cmd("run", _submit_command(run_slurm_kwargs),
                             DefaultGraceSeconds)}
    /\ LET s == backend_submit(r)
       IN IF s.ok
          THEN /\ jobid' = Some(s.jobid)
               /\ pid' = Some(_get_infrastructure_pid(host, s.jobid))
               /\ pc' = "watch"
               /\ error' = error
          ELSE /\ pc' = "submit_raised"
               /\ error' = s.error
               /\ UNCHANGED <<jobid, pid>>
    /\ submitResult' = Some(r)
    /\ UNCHANGED <<killGrace, killedAt, settled, afterVars, pure>>
    /\ UNCHANGED <<watchVars, now, killVars>>

(***************************************************************************)
(* SlurmJob._watch_job.                                                    *)
(***************************************************************************)
\* lines 472-475: the flags and the start time
StartWatch ==
    /\ pc = "watch"
    /\ completed' = FALSE
    /\ submitted' = FALSE
    /\ startWatching' = Some(now)
    /\ pc' = "poll"
    /\ UNCHANGED <<submitResult, killGrace, killedAt, settled, afterVars, pure>>
    /\ UNCHANGED <<jobid, pid, error, status, retval, now, wakeAt, result, obs,
                   polls, sleeps, inflight, cmds, killVars>>

\* a query is issued although the previous one has not returned
IssueQuery_Overlapping ==
    /\ pc \in {"poll", "await"}
    /\ ~completed
    /\ polls < MaxPolls
    /\ cmds' = cmds \cup {Cmd("watch", _status_command(jobid[1]),
                             DefaultGraceSeconds)}
    /\ polls' = polls + 1
    /\ inflight' = inflight + 1
    /\ pc' = "await"
    /\ UNCHANGED <<submitResult, killGrace, killedAt, settled, afterVars, pure>>
    /\ UNCHANGED <<jobid, pid, error, completed, submitted, startWatching,
                   status, retval, now, wakeAt, result, obs, sleeps, killVars>>

\* line 477 and the call of line 479: the loop test, then the query is issued
IssueQuery ==
    /\ pc = "poll"
    /\ ~completed
    /\ polls < MaxPolls
    /\ cmds' = cmds \cup {Cmd("watch", _status_command(jobid[1]),
                             DefaultGraceSeconds)}
    /\ polls' = polls + 1
    /\ inflight' = inflight + 1
    /\ pc' = "await"
    /\ UNCHANGED <<submitResult, killGrace, killedAt, settled, afterVars, pure>>
    /\ UNCHANGED <<jobid, pid, error, completed, submitted, startWatching,
                   status, retval, now, wakeAt, result, obs, sleeps, killVars>>

\* line 479: the query completes; r is what squeue yields
QueryReturns(r) ==
    /\ pc = "await"
    /\ inflight' = inflight - 1
    /\ result' = Some(r)
    /\ LET st == backend_status(r)
       IN IF st \in SlurmJobStatus
          THEN /\ status' = st
               /\ obs' = Append(obs, st)
               /\ pc' = "reduce"
               /\ error' = error
          ELSE /\ pc' = "watch_raised"
               /\ error' = st
               /\ UNCHANGED <<status, obs>>
    /\ UNCHANGED <<submitResult, killGrace, killedAt, settled, afterVars, pure>>
    /\ UNCHANGED <<jobid, pid, completed, submitted, startWatching, retval, now,
                   wakeAt, polls, sleeps, cmds, killVars>>

(***************************************************************************)
(* Variants of the loop body with a fault in one branch.                   *)
(***************************************************************************)
\* the test of line 482 without "and not submitted"
WatchStep_ForgetsSeen(st, sub, elapsed) ==
    IF st = "UNDEFINED"
    THEN IF elapsed < polling_seconds
         THEN [next |-> "continue", submitted |-> sub, completed |-> FALSE, code |-> None]
         ELSE [next |-> "return", submitted |-> sub, completed |-> TRUE, code |-> Some(-1)]
    ELSE IF st = "COMPLETED"
         THEN [next |-> "return", submitted |-> TRUE, completed |-> TRUE, code |-> Some(0)]
    ELSE IF st = "FAILED"
         THEN [next |-> "return", submitted |-> TRUE, completed |-> TRUE, code |-> Some(-1)]
    ELSE [next |-> "sleep", submitted |-> TRUE, completed |-> FALSE, code |-> None]

\* the else branch of line 489 falls through to line 495
WatchStep_NeverSeenFallsThrough(st, sub, elapsed) ==
    IF st = "UNDEFINED" /\ ~sub /\ elapsed < polling_seconds
    THEN [next |-> "continue", submitted |-> sub, completed |-> FALSE, code |-> None]
    ELSE IF st = "UNDEFINED" \/ st = "COMPLETED"
         THEN [next |-> "return", submitted |-> TRUE, completed |-> TRUE, code |-> Some(0)]
    ELSE IF st = "FAILED"
         THEN [next |-> "return", submitted |-> TRUE, completed |-> TRUE, code |-> Some(-1)]
    ELSE [next |-> "sleep", submitted |-> TRUE, completed |-> FALSE, code |-> None]

\* no grace window: lines 485-488 missing
WatchStep_NoGrace(st, sub, elapsed) ==
    IF st = "UNDEFINED" /\ ~sub
    THEN [next |-> "return", submitted |-> sub, completed |-> TRUE, code |-> Some(-1)]
    ELSE IF st = "UNDEFINED" \/ st = "COMPLETED"
         THEN [next |-> "return", submitted |-> TRUE, completed |-> TRUE, code |-> Some(0)]
    ELSE IF st = "FAILED"
         THEN [next |-> "return", submitted |-> TRUE, completed |-> TRUE, code |-> Some(-1)]
    ELSE [next |-> "sleep", submitted |-> TRUE, completed |-> FALSE, code |-> None]

\* lines 503-506 missing: Failed is slept on
WatchStep_FailedIgnored(st, sub, elapsed) ==
    IF st = "UNDEFINED" /\ ~sub
    THEN IF elapsed < polling_seconds
         THEN [next |-> "continue", submitted |-> sub, completed |-> FALSE, code |-> None]
         ELSE [next |-> "return", submitted |-> sub, completed |-> TRUE, code |-> Some(-1)]
    ELSE IF st = "UNDEFINED" \/ st = "COMPLETED"
         THEN [next |-> "return", submitted |-> TRUE, completed |-> TRUE, code |-> Some(0)]
    ELSE [next |-> "sleep", submitted |-> TRUE, completed |-> FALSE, code |-> None]

\* line 503 tests for anything but Running and Pending
WatchStep_UnknownFails(st, sub, elapsed) ==
    IF st = "UNDEFINED" /\ ~sub
    THEN IF elapsed < polling_seconds
         THEN [next |-> "continue", submitted |-> sub, completed |-> FALSE, code |-> None]
         ELSE [next |-> "return", submitted |-> sub, completed |-> TRUE, code |-> Some(-1)]
    ELSE IF st = "UNDEFINED" \/ st = "COMPLETED"
         THEN [next |-> "return", submitted |-> TRUE, completed |-> TRUE, code |-> Some(0)]
    ELSE IF st \notin {"RUNNING", "PENDING"}
         THEN [next |-> "return", submitted |-> TRUE, completed |-> TRUE, code |-> Some(-1)]
    ELSE [next |-> "sleep", submitted |-> TRUE, completed |-> FALSE, code |-> None]

\* the grace window without its time limit
WatchStep_GraceNeverEnds(st, sub, elapsed) ==
    IF st = "UNDEFINED" /\ ~sub
    THEN [next |-> "continue", submitted |-> sub, completed |-> FALSE, code |-> None]
    ELSE IF st = "UNDEFINED" \/ st = "COMPLETED"
         THEN [next |-> "return", submitted |-> TRUE, completed |-> TRUE, code |-> Some(0)]
    ELSE IF st = "FAILED"
         THEN [next |-> "return", submitted |-> TRUE, completed |-> TRUE, code |-> Some(-1)]
    ELSE [next |-> "sleep", submitted |-> TRUE, completed |-> FALSE, code |-> None]

\* lines 481-508: one iteration of the loop body on status st with flag sub
\* after elapsed seconds of watching
WatchStep(st, sub, elapsed) ==
    IF st = "UNDEFINED" /\ ~sub
    THEN IF elapsed < polling_seconds
         THEN [next |-> "continue", submitted |-> sub, completed |-> FALSE, code |-> None]
         ELSE [next |-> "return", submitted |-> sub, completed |-> TRUE, code |-> Some(-1)]
    ELSE IF st = "UNDEFINED" \/ st = "COMPLETED"
         THEN [next |-> "return", submitted |-> TRUE, completed |-> TRUE, code |-> Some(0)]
    ELSE IF st = "FAILED"
         THEN [next |-> "return", submitted |-> TRUE, completed |-> TRUE, code |-> Some(-1)]
    ELSE [next |-> "sleep", submitted |-> TRUE, completed |-> FALSE, code |-> None]

\* lines 481-508: the status is reduced
Reduce ==
    /\ pc = "reduce"
    /\ LET w == WatchStep(status, submitted, now - startWatching[1])
       IN /\ submitted' = w.submitted
          /\ completed' = w.completed
          /\ retval' = w.code
          /\ pc' = CASE w.next = "continue" -> "poll"
                     [] w.next = "return" -> "returned"
                     [] OTHER -> "sleep"
          /\ wakeAt' = IF w.next = "sleep" THEN Some(now + polling_seconds) ELSE None
          /\ sleeps' = IF w.next = "sleep" THEN sleeps + 1 ELSE sleeps
    /\ result' = None
    /\ UNCHANGED <<submitResult, killGrace, killedAt, settled, afterVars, pure>>
    /\ UNCHANGED <<jobid, pid, error, startWatching, status, now, obs, polls,
                   inflight, cmds, killVars>>

\* line 508: the sleep ends
Wake ==
    /\ pc = "sleep"
    /\ now >= wakeAt[1]
    /\ wakeAt' = None
    /\ pc' = "poll"
    /\ UNCHANGED <<submitResult, killGrace, killedAt, settled, afterVars, pure>>
    /\ UNCHANGED <<jobid, pid, error, completed, submitted, startWatching,
                   status, retval, now, result, obs, polls, sleeps, inflight,
                   cmds, killVars>>

\* a cancelled watch cancels the job as well
Cancel_KillsJob ==
    /\ pc \in {"await", "sleep"}
    /\ pc' = "cancelled"
    /\ inflight' = 0
    /\ wakeAt' = None
    /\ cmds' = cmds \cup {Cmd("watch", _kill_command(jobid[1]), DefaultGraceSeconds)}
    /\ UNCHANGED <<submitResult, killGrace, killedAt, settled, afterVars, pure>>
    /\ UNCHANGED <<jobid, pid, error, completed, submitted, startWatching,
                   status, retval, now, result, obs, polls, sleeps, killVars>>

\* the caller cancels the watch at one of its two suspension points
Cancel ==
    /\ pc \in {"await", "sleep"}
    /\ pc' = "cancelled"
    /\ inflight' = 0
    /\ wakeAt' = None
    /\ UNCHANGED <<submitResult, killGrace, killedAt, settled, afterVars, pure>>
    /\ UNCHANGED <<jobid, pid, error, completed, submitted, startWatching,
                   status, retval, now, result, obs, polls, sleeps, cmds,
                   killVars>>

\* time passes while run is suspended
Tick ==
    /\ pc \in {"submit", "await", "sleep"}
    /\ now + ClockStep <= MaxTime
    /\ now' = now + ClockStep
    /\ UNCHANGED <<submitResult, killGrace, killedAt, settled, afterVars, pure>>
    /\ UNCHANGED <<runVars, watchVars, cmds, killVars>>

(***************************************************************************)
(* SlurmJob.kill.                                                          *)
(***************************************************************************)
\* a kill that marks the watched job as completed
Kill_CompletesWatch(infrastructure_pid, grace_seconds, r) ==
    /\ kills < MaxKills
    /\ kills' = kills + 1
    /\ LET p == _parse_infrastructure_pid(infrastructure_pid)
       IN IF ~p.ok
          THEN /\ killOutcome' = "ValueError"
               /\ killResult' = None
               /\ cmds' = cmds
          ELSE /\ cmds' = cmds \cup {Cmd("kill", _kill_command(p.jobid),
                                        DefaultGraceSeconds)}
               /\ killResult' = Some(r)
               /\ killOutcome' = IF r.kind = "ok" THEN "returned" ELSE r.kind
    /\ killGrace' = Some(grace_seconds)
    /\ killedAt' = Some(Len(obs))
    /\ UNCHANGED <<submitResult, settled, afterVars, pure>>
    /\ completed' = TRUE
    /\ UNCHANGED <<runVars, submitted, startWatching, status, retval, wakeAt,
                   result, obs, polls, sleeps, inflight, now>>

\* SlurmJob.kill(infrastructure_pid, grace_seconds); r is what scancel yields
Kill(infrastructure_pid, grace_seconds, r) ==
    /\ kills < MaxKills
    /\ kills' = kills + 1
    /\ LET p == _parse_infrastructure_pid(infrastructure_pid)
       IN IF ~p.ok
          THEN /\ killOutcome' = "ValueError"
               /\ killResult' = None
               /\ cmds' = cmds
          ELSE /\ cmds' = cmds \cup {Cmd("kill", _kill_command(p.jobid),
                                        DefaultGraceSeconds)}
               /\ killResult' = Some(r)
               /\ killOutcome' = IF r.kind = "ok" THEN "returned" ELSE r.kind
    /\ killGrace' = Some(grace_seconds)
    /\ killedAt' = Some(Len(obs))
    /\ UNCHANGED <<submitResult, settled, afterVars, pure>>
    /\ UNCHANGED <<runVars, watchVars, now>>

\* the caller kills the job whose pid run has reported
KillJob ==
    /\ pid # None
    /\ \E g \in GraceValues, r \in KillResults : Kill(pid[1], g, r)

\* what can fail between the watch's return and run's return statement
FsSteps == {"connect", "logs", "rmdir"}

\* the steps run attempts, given its two switches; nothing follows a failed connect
FsAttempted(stream_output, retain_working_directory) ==
    {"connect"} \cup (IF stream_output THEN {"logs"} ELSE {})
                \cup (IF retain_working_directory THEN {} ELSE {"rmdir"})

\* a log read that was left outside the handler
Finish_LogFailureRaises(stream_output, retain_working_directory, failing) ==
    /\ pc = "returned"
    /\ cleanup = "pending"
    /\ failing \subseteq FsAttempted(stream_output, retain_working_directory)
    /\ "connect" \in failing => failing = {"connect"}
    /\ fsFailures' = failing
    /\ IF failing \cap {"connect", "logs"} # {}
       THEN /\ cleanup' = "raised"
            /\ runResult' = None
            /\ logged' = {}
       ELSE /\ cleanup' = "done"
            /\ runResult' = Some([identifier |-> pid[1], status_code |-> retval[1]])
            /\ logged' = failing
    /\ UNCHANGED <<runVars, watchVars, now, cmds, killVars, killGrace, killedAt,
                   submitResult, settled, pure>>

\* run after _watch_job has returned: open the file system session, read the
\* two log files, remove the working directory, return the result
Finish(stream_output, retain_working_directory, failing) ==
    /\ pc = "returned"
    /\ cleanup = "pending"
    /\ failing \subseteq FsAttempted(stream_output, retain_working_directory)
    /\ "connect" \in failing => failing = {"connect"}
    /\ fsFailures' = failing
    /\ IF "connect" \in failing
       THEN /\ cleanup' = "raised"
            /\ runResult' = None
            /\ logged' = {}
       ELSE /\ cleanup' = "done"
            /\ runResult' = Some([identifier |-> pid[1], status_code |-> retval[1]])
            /\ logged' = failing
    /\ UNCHANGED <<runVars, watchVars, now, cmds, killVars, killGrace, killedAt,
                   submitResult, settled, pure>>

Next ==
    \/ \E r \in SubmitResults : Submit(r)
    \/ StartWatch
    \/ IssueQuery
    \/ \E r \in StatusResults : QueryReturns(r)
    \/ Reduce
    \/ Wake
    \/ Cancel
    \/ Tick
    \/ KillJob
    \/ \E so \in BOOLEAN, rwd \in BOOLEAN, failing \in SUBSET FsSteps :
            Finish(so, rwd, failing)

Spec == Init /\ [][Next]_vars

(***************************************************************************)
(* The pid codec, SlurmJob.kill on an arbitrary handle and the rendering   *)
(* of the sbatch command, applied on their own to inputs drawn from        *)
(* bounded sets.                                                           *)
(***************************************************************************)
Hosts == {host, (<<"l", "o", "g", "i", "n", ".", "h", "p", "c">>), <<>>, (<<"a", ":", "b">>)}
JobIds == 0..MaxJobId

\* handles a caller may hand to kill that no run has produced
RawHandles == {(<<"a", ":", "b", ":", "c">>), (<<"n", "o", "C", "o", "l", "o", "n">>), (<<"h", "o", "s", "t", ":", "n", "o", "t", "a", "n", "u", "m", "b", "e", "r">>), (<<"h", "p", "c", ":">>), (<<"a", ":", "b", ":", "7">>), (<<"h", "p", "c", ":", " ", "1", "2", "\n">>), (<<>>)}

KwKeys == {(<<"n", "o", "d", "e", "s">>), (<<"p", "a", "r", "s", "a", "b", "l", "e">>), (<<"t", "i", "m", "e">>)}
KwValues == {None, Some(<<"1">>), Some(<<>>)}
\* insertion-ordered dicts with at most MaxOptions distinct keys
KwargsDicts ==
    {d \in UNION {[1..n -> KwKeys \X KwValues] : n \in 0..MaxOptions} :
        \A i, j \in 1..Len(d) : i # j => d[i][1] # d[j][1]}

PureInputs ==
    {[kind |-> "pair", stage |-> "input", host |-> h, jobid |-> j,
      text |-> <<>>, parsed |-> None] : h \in Hosts, j \in JobIds}
    \cup {[kind |-> "handle", stage |-> "encoded", text |-> t, parsed |-> None]
            : t \in RawHandles}
    \cup {[kind |-> "kwargs", stage |-> "input", kwargs |-> d, cmd |-> <<>>]
            : d \in KwargsDicts}

PureInit == InitRun /\ pure \in PureInputs

runAll == <<runVars, watchVars, now, cmds, killVars, killGrace, killedAt, submitResult,
            settled, afterVars>>

\* _get_infrastructure_pid applied to the pair
Encode ==
    /\ pure.kind = "pair"
    /\ pure.stage = "input"
    /\ pure' = [pure EXCEPT !.stage = "encoded",
                            !.text = _get_infrastructure_pid(pure.host, pure.jobid)]
    /\ UNCHANGED runAll

\* _parse_infrastructure_pid applied to the handle
Decode ==
    /\ pure.kind \in {"pair", "handle"}
    /\ pure.stage = "encoded"
    /\ pure' = [pure EXCEPT !.stage = "decoded",
                            !.parsed = Some(_parse_infrastructure_pid(pure.text))]
    /\ UNCHANGED runAll

\* SlurmJob.kill called with the handle
KillHandle ==
    /\ pure.kind \in {"pair", "handle"}
    /\ pure.stage \in {"encoded", "decoded"}
    /\ \E g \in GraceValues, r \in KillResults : Kill(pure.text, g, r)

\* _submit_command applied to the options
Render ==
    /\ pure.kind = "kwargs"
    /\ pure.stage = "input"
    /\ pure' = [pure EXCEPT !.stage = "rendered",
                            !.cmd = _submit_command(pure.kwargs)]
    /\ UNCHANGED runAll

PureNext ==
    \/ Encode
    \/ Decode
    \/ KillHandle
    \/ Render

PureSpec == PureInit /\ [][PureNext]_vars

(***************************************************************************)
(* The watch under a fair scheduler, with every status query answered and  *)
(* the clock advancing while a query or a sleep is pending.                *)
(***************************************************************************)
TerminalReports == {"COMPLETED", "FAILED", "UNDEFINED"}

\* from now on the scheduler reports only Completed, Failed or Undefined
Settle ==
    /\ pc \in {"poll", "await", "reduce", "sleep"}
    /\ ~settled
    /\ settled' = TRUE
    /\ UNCHANGED <<runVars, watchVars, now, cmds, killVars, killGrace, killedAt,
                   submitResult, afterVars, pure>>

\* line 479: the query is answered after QueryTime seconds; a status that
\* keeps the loop going is drawn only while the bounds leave room for the
\* sleep and the poll that follow it
LiveQueryReturns(r) ==
    /\ pc = "await"
    /\ r.kind = "ok"
    /\ now' = now + QueryTime
    /\ inflight' = inflight - 1
    /\ result' = Some(r)
    /\ LET st == backend_status(r)
       IN /\ settled => st \in TerminalReports
          /\ st \notin TerminalReports =>
                /\ polls < MaxPolls
                /\ now' + polling_seconds + QueryTime <= MaxTime
          /\ status' = st
          /\ obs' = Append(obs, st)
          /\ pc' = "reduce"
    /\ UNCHANGED <<submitResult, killGrace, killedAt, settled, afterVars, pure>>
    /\ UNCHANGED <<jobid, pid, error, completed, submitted, startWatching, retval,
                   wakeAt, polls, sleeps, cmds, killVars>>

\* line 508: the time of the sleep passes
SleepElapses ==
    /\ pc = "sleep"
    /\ now < wakeAt[1]
    /\ now' = wakeAt[1]
    /\ UNCHANGED <<submitResult, killGrace, killedAt, settled, afterVars, pure>>
    /\ UNCHANGED <<runVars, watchVars, cmds, killVars>>

LiveNext ==
    \/ \E r \in SubmitResults : Submit(r)
    \/ StartWatch
    \/ IssueQuery
    \/ \E r \in StatusResults : LiveQueryReturns(r)
    \/ Reduce
    \/ SleepElapses
    \/ Wake
    \/ Settle

LiveFairness ==
    /\ WF_vars(StartWatch)
    /\ WF_vars(IssueQuery)
    /\ WF_vars(\E r \in StatusResults : LiveQueryReturns(r))
    /\ WF_vars(Reduce)
    /\ WF_vars(SleepElapses)
    /\ WF_vars(Wake)

LiveSpec == Init /\ [][LiveNext]_vars /\ LiveFairness

(***************************************************************************)
(* Vocabulary of the properties.                                           *)
(***************************************************************************)
Last(q) == q[Len(q)]
\* some poll before the latest one returned a status other than Undefined
SeenBefore == \E i \in 1..(Len(obs) - 1) : obs[i] # "UNDEFINED"
\* some poll returned a status other than Undefined
SeenEver == \E i \in 1..Len(obs) : obs[i] # "UNDEFINED"
\* seconds since the watch started
Elapsed == now - startWatching[1]
NonTerminal == {"PENDING", "RUNNING", "PREEMPTED", "UNKNOWN"}
\* the statement that reduces the latest poll is taken in this step
Reduced == pc = "reduce" /\ pc' # "reduce"
\* the first word of the command is scancel
IsCancelCommand(text) ==
    LET t == LStrip(text)
        n == Len(S_scancel)
    IN /\ Len(t) >= n
       /\ SubSeq(t, 1, n) = S_scancel
       /\ (Len(t) = n \/ t[n + 1] \in Whitespace)

(***************************************************************************)
(* C1: once a poll has returned a status other than Undefined the job      *)
(* counts as seen for the rest of the watch; every later Undefined poll    *)
(* and every Completed poll ends the watch at that iteration with exit     *)
(* code 0 and no further query; after the job has been seen an exit code   *)
(* of -1 only comes from a Failed observation.                             *)
(***************************************************************************)
C1_State ==
    /\ pc \in {"poll", "await", "sleep", "returned", "cancelled", "watch_raised"}
          => (submitted <=> SeenEver)
    /\ pc = "reduce" => (submitted <=> SeenBefore)
    /\ (pc = "returned" /\ Last(obs) = "COMPLETED") => retval = Some(0)
    /\ (pc = "returned" /\ Last(obs) = "UNDEFINED" /\ SeenBefore) => retval = Some(0)
    /\ (pc = "returned" /\ SeenBefore /\ retval = Some(-1)) => Last(obs) = "FAILED"

C1_Step ==
    /\ submitted => submitted'
    /\ (Reduced /\ (Last(obs) = "COMPLETED" \/ (Last(obs) = "UNDEFINED" /\ SeenBefore)))
          => (pc' = "returned" /\ retval' = Some(0) /\ polls' = polls)
    /\ pc = "returned" => (pc' = "returned" /\ polls' = polls /\ retval' = retval)

C1_SeenThenGoneIsSuccess == [][C1_Step /\ C1_State']_vars

C1_Witness ==
    /\ pc = "returned"
    /\ Len(obs) >= 2
    /\ obs[1] = "RUNNING"
    /\ Last(obs) = "UNDEFINED"
    /\ retval = Some(0)

(***************************************************************************)
(* C2: a poll that returns Undefined when no earlier poll returned         *)
(* anything else and at least the poll interval has elapsed ends the       *)
(* watch with exit code -1; a job Undefined on every poll never gets 0.    *)
(***************************************************************************)
C2_Step ==
    (Reduced /\ Last(obs) = "UNDEFINED" /\ ~SeenBefore /\ Elapsed >= polling_seconds)
        => (pc' = "returned" /\ retval' = Some(-1) /\ polls' = polls)

C2_State ==
    (\A i \in 1..Len(obs) : obs[i] = "UNDEFINED") => retval \in {None, Some(-1)}

C2_NeverAdmittedFails == [][C2_Step /\ C2_State']_vars

C2_Witness ==
    /\ pc = "returned"
    /\ obs = <<"UNDEFINED", "UNDEFINED", "UNDEFINED">>
    /\ retval = Some(-1)

(***************************************************************************)
(* C3: a poll that returns Undefined for a job never seen, less than the   *)
(* poll interval after the watch started, does not end the watch, does     *)
(* not mark the job seen, does not sleep, and the next query follows       *)
(* immediately; Undefined in the grace window, then Running, then          *)
(* Completed gives exit code 0.                                            *)
(***************************************************************************)
C3_Step ==
    /\ (Reduced /\ Last(obs) = "UNDEFINED" /\ ~SeenBefore /\ Elapsed < polling_seconds)
          => /\ pc' = "poll"
             /\ ~submitted'
             /\ ~completed'
             /\ retval' = None
             /\ sleeps' = sleeps
             /\ wakeAt' = None
             /\ now' = now
    /\ (pc = "poll" /\ pc' # "poll")
          => (pc' = "await" /\ polls' = polls + 1 /\ now' = now /\ sleeps' = sleeps)

C3_State ==
    (pc = "returned" /\ obs = <<"UNDEFINED", "RUNNING", "COMPLETED">>)
        => retval = Some(0)

C3_GraceWindowRepolls == [][C3_Step /\ C3_State']_vars

C3_Witness ==
    /\ pc = "returned"
    /\ obs = <<"UNDEFINED", "RUNNING", "COMPLETED">>
    /\ retval = Some(0)
    /\ sleeps = 1

(***************************************************************************)
(* C4: every poll that returns Failed ends the watch at that iteration     *)
(* with exit code -1 and no further query.                                 *)
(***************************************************************************)
C4_Step ==
    /\ (Reduced /\ Last(obs) = "FAILED")
          => (pc' = "returned" /\ retval' = Some(-1) /\ polls' = polls)
    /\ (pc = "returned" /\ Last(obs) = "FAILED")
          => (pc' = "returned" /\ polls' = polls /\ retval' = Some(-1))

C4_State ==
    (pc \notin {"reduce"} /\ obs # <<>> /\ Last(obs) = "FAILED")
        => (pc = "returned" /\ retval = Some(-1) /\ polls = Len(obs))

C4_FailedIsFailure == [][C4_Step /\ C4_State']_vars

C4_Witness ==
    /\ pc = "returned"
    /\ obs = <<"PENDING", "RUNNING", "FAILED">>
    /\ retval = Some(-1)

(***************************************************************************)
(* C5: a poll that returns Pending, Running, Preempted or Unknown never    *)
(* ends the watch: the job is marked seen, the monitor sleeps once for     *)
(* the poll interval and only then issues the next query; a job reported   *)
(* with these statuses on every poll is never reported as finished.        *)
(***************************************************************************)
C5_Step ==
    /\ (Reduced /\ Last(obs) \in NonTerminal)
          => /\ pc' = "sleep"
             /\ submitted'
             /\ ~completed'
             /\ retval' = None
             /\ sleeps' = sleeps + 1
             /\ wakeAt' = Some(now + polling_seconds)
             /\ polls' = polls
    /\ pc = "sleep"
          => /\ pc' \in {"sleep", "poll", "cancelled"}
             /\ polls' = polls
             /\ sleeps' = sleeps
             /\ (pc' = "poll" => now >= wakeAt[1])

C5_State ==
    /\ (\A i \in 1..Len(obs) : obs[i] \in NonTerminal)
          => (retval = None /\ pc # "returned")
    /\ pc # "reduce"
          => sleeps = Cardinality({i \in 1..Len(obs) : obs[i] \in NonTerminal})

C5_NonTerminalSleepsThenRepolls == [][C5_Step /\ C5_State']_vars

C5_Witness ==
    /\ pc = "await"
    /\ obs = <<"PREEMPTED", "UNKNOWN">>
    /\ sleeps = 2
    /\ polls = 3
    /\ retval = None

(***************************************************************************)
(* C6 as stated: the watch ends only by returning 0 or -1 or by            *)
(* cancellation, never by raising an error, whatever a status poll         *)
(* yields (a timeout or a connection failure included).                    *)
(***************************************************************************)
C6_WatchNeverRaises ==
    /\ pc # "watch_raised"
    /\ pc = "returned" => retval \in {Some(0), Some(-1)}

(***************************************************************************)
(* C6 amended: whenever the remote query command completes (any exit       *)
(* status, any stdout) the poll yields a status and the watch ends only    *)
(* by returning 0 or -1 on a Completed, Failed or Undefined observation    *)
(* or by cancellation; the watch raises only the timeout or connection     *)
(* error of the remote executor, which status does not absorb.             *)
(***************************************************************************)
C6_State ==
    /\ pc = "returned"
          => /\ retval \in {Some(0), Some(-1)}
             /\ Last(obs) \in {"COMPLETED", "FAILED", "UNDEFINED"}
    /\ pc # "returned" => retval = None
    /\ pc = "watch_raised"
          => /\ error \in RemoteErrors
             /\ result # None
             /\ result[1].kind = error
             /\ retval = None
    /\ pc = "reduce" => (result # None /\ result[1].kind = "ok")
    /\ (pc = "watch_raised") <=> (error # "none" /\ jobid # None)

C6_Step ==
    /\ pc' = "watch_raised" => pc \in {"await", "watch_raised"}
    /\ pc \in {"returned", "cancelled", "watch_raised"} => pc' = pc
    /\ (pc = "await" /\ pc' # "await")
          => \/ pc' = "cancelled"
             \/ pc' = "reduce" /\ result'[1].kind = "ok"
             \/ pc' = "watch_raised" /\ result'[1].kind \in RemoteErrors

C6_OnlyExecutorErrorsEscape == [][C6_Step /\ C6_State']_vars

C6_Witness ==
    /\ pc = "watch_raised"
    /\ error = "TimeoutError"
    /\ obs = <<"UNDEFINED", "UNKNOWN">>
    /\ polls = 3

(***************************************************************************)
(* C7: at most one status query of the job is in flight; a query is        *)
(* issued only after the previous one has returned and been reduced.       *)
(***************************************************************************)
C7_State ==
    /\ inflight \in {0, 1}
    /\ inflight = 1 <=> pc = "await"
    /\ pc = "await" => (polls = Len(obs) + 1 /\ result = None)

C7_Step ==
    polls' # polls
        => /\ polls' = polls + 1
           /\ pc = "poll"
           /\ inflight = 0
           /\ result = None
           /\ Len(obs) = polls

C7_OneQueryInFlight == [][C7_Step /\ C7_State']_vars

C7_Witness ==
    /\ pc = "await"
    /\ inflight = 1
    /\ polls = 3
    /\ Len(obs) = 2

(***************************************************************************)
(* C8: the monitor issues status queries only, never a cancel command,     *)
(* neither while polling nor when it is cancelled; a cancelled watch       *)
(* issues no further command; a cancel command is issued only by kill.     *)
(***************************************************************************)
C8_State ==
    /\ \A c \in cmds : c.by = "watch" => c.cmd = _status_command(jobid[1])
    /\ \A c \in cmds : IsCancelCommand(c.cmd) => (c.by = "kill" /\ kills > 0)
    /\ Cardinality({c \in cmds : c.by = "watch"}) = (IF polls > 0 THEN 1 ELSE 0)

C8_Step ==
    /\ (pc # "cancelled" /\ pc' = "cancelled") => cmds' = cmds
    /\ pc = "cancelled"
          => /\ pc' = "cancelled"
             /\ polls' = polls
             /\ {c \in cmds' : c.by # "kill"} = {c \in cmds : c.by # "kill"}
    /\ cmds' # cmds
          => \/ pc = "submit"
             \/ pc = "poll" /\ polls' = polls + 1
             \/ kills' = kills + 1

C8_WatchNeverCancelsJob == []C8_State /\ [][C8_Step]_vars

C8_Witness ==
    /\ pc = "cancelled"
    /\ polls = 2
    /\ kills = 0
    /\ \A c \in cmds : ~IsCancelCommand(c.cmd)

(***************************************************************************)
(* C9: kill executes exactly the command "scancel <jobId>" with the        *)
(* decimal job id that submit returned, does not inspect the result and    *)
(* raises nothing when the command exits non-zero.                         *)
(***************************************************************************)
C9_KillRunsScancelJobId ==
    /\ \A c \in cmds : c.by = "kill" => c.cmd = S_scancel \o <<" ">> \o Str(jobid[1])
    /\ (killResult # None /\ killResult[1].kind = "ok") => killOutcome = "returned"

(***************************************************************************)
(* C10: status returns Undefined whenever the exit status of the query     *)
(* command is non-zero, whatever its stdout, and does not raise.           *)
(***************************************************************************)
C10_NonZeroExitIsUndefined ==
    (result # None /\ result[1].kind = "ok" /\ result[1].exit_status # 0)
        => (pc = "reduce" /\ status = "UNDEFINED" /\ Last(obs) = "UNDEFINED"
            /\ error = "none")

C10_Witness ==
    /\ pc = "reduce"
    /\ result = Some(Completed(1, Out_failed))
    /\ status = "UNDEFINED"
    /\ obs = <<"RUNNING", "UNDEFINED">>

(***************************************************************************)
(* C11: status returns Undefined, and does not raise, whenever the query   *)
(* command exits with status 0 and its stdout has fewer than two           *)
(* whitespace-separated tokens.                                            *)
(***************************************************************************)
C11_TooFewTokensIsUndefined ==
    (result # None /\ result[1].kind = "ok" /\ result[1].exit_status = 0
        /\ Len(Split(result[1].stdout)) < 2)
        => (pc = "reduce" /\ status = "UNDEFINED" /\ Last(obs) = "UNDEFINED"
            /\ error = "none")

C11_Witness ==
    /\ pc = "reduce"
    /\ result = Some(Completed(0, Out_one_token))
    /\ status = "UNDEFINED"
    /\ error = "none"

(***************************************************************************)
(* C12: when the query exits with status 0 and stdout has at least two     *)
(* tokens, status returns Pending, Completed, Preempted, Failed or Running *)
(* exactly when the first token is that word in upper case, and Unknown    *)
(* for every other first token; it never raises and never returns          *)
(* Undefined from the mapping.                                             *)
(***************************************************************************)
C12_MappingIsExactAndTotal ==
    (result # None /\ result[1].kind = "ok" /\ result[1].exit_status = 0
        /\ Len(Split(result[1].stdout)) >= 2)
        => LET tok == Split(result[1].stdout)[1]
           IN /\ pc = "reduce"
              /\ error = "none"
              /\ status \in SlurmJobStatus \ {"UNDEFINED"}
              /\ status = Last(obs)
              /\ (status = "PENDING") <=> (tok = S_PENDING)
              /\ (status = "COMPLETED") <=> (tok = S_COMPLETED)
              /\ (status = "PREEMPTED") <=> (tok = S_PREEMPTED)
              /\ (status = "FAILED") <=> (tok = S_FAILED)
              /\ (status = "RUNNING") <=> (tok = S_RUNNING)
              /\ (status = "UNKNOWN") <=>
                     (tok \notin {S_PENDING, S_COMPLETED, S_PREEMPTED, S_FAILED,
                                  S_RUNNING})

C12_Witness ==
    /\ pc = "reduce"
    /\ result = Some(Completed(0, Out_lowercase))
    /\ status = "UNKNOWN"
    /\ \E i \in 1..Len(obs) : obs[i] = "RUNNING"

(***************************************************************************)
(* C13 as stated: submit fails with a SubmissionError, returning no job    *)
(* id, whenever the trimmed stdout of sbatch is not a valid integer or the *)
(* command times out; then run reports no job handle and issues no status *)
(* query.                                                                  *)
(***************************************************************************)
SubmitMustFail ==
    /\ submitResult # None
    /\ \/ submitResult[1].kind = "TimeoutError"
       \/ submitResult[1].kind = "ok" /\ ~ParseInt(submitResult[1].stdout).ok

C13_SubmitFailsWithSubmissionError ==
    SubmitMustFail
        => /\ pc = "submit_raised"
           /\ error = "SubmissionError"
           /\ jobid = None
           /\ pid = None
           /\ polls = 0

(***************************************************************************)
(* C13 amended: submit fails by raising, returning no job id, whenever the *)
(* trimmed stdout of sbatch is not a valid integer (the ValueError of the  *)
(* integer conversion) or the command times out (the timeout error of the  *)
(* remote executor); there is no SubmissionError.  When submit fails in    *)
(* run, no job handle is reported and no status query is ever issued.      *)
(***************************************************************************)
C13_State ==
    /\ SubmitMustFail
          => /\ pc = "submit_raised"
             /\ error = (IF submitResult[1].kind = "ok" THEN "ValueError"
                         ELSE "TimeoutError")
    /\ pc = "submit_raised"
          => /\ error \in {"ValueError"} \cup RemoteErrors
             /\ jobid = None
             /\ pid = None
             /\ polls = 0
             /\ obs = <<>>
             /\ kills = 0
             /\ \A c \in cmds : c.by = "run"

C13_Step == pc = "submit_raised" => (pc' = "submit_raised" /\ cmds' = cmds)

C13_SubmitFailsByRaising == []C13_State /\ [][C13_Step]_vars

C13_Witness ==
    /\ pc = "submit_raised"
    /\ submitResult = Some(Completed(0, Sb_cluster))
    /\ error = "ValueError"
    /\ pid = None

(***************************************************************************)
(* C14: for every host name without ':' and every job id >= 0, parsing     *)
(* the handle made by _get_infrastructure_pid gives back the same host and *)
(* job id.                                                                 *)
(***************************************************************************)
HasColon(text) == \E i \in 1..Len(text) : text[i] = ":"

C14_PidRoundTrip ==
    (pure.kind = "pair" /\ pure.stage = "decoded"
        /\ ~HasColon(pure.host) /\ pure.jobid >= 0)
        => pure.parsed = Some([ok |-> TRUE, hostname |-> pure.host,
                               jobid |-> pure.jobid])

C14_Witness ==
    /\ pure.kind = "pair"
    /\ pure.stage = "decoded"
    /\ pure.host = host
    /\ pure.jobid = 12
    /\ pure.text = <<"h", "p", "c", ":", "1", "2">>
    /\ pure.parsed[1].ok

(***************************************************************************)
(* C15: decoding a handle fails whenever it contains no ':' or more than   *)
(* one ':', or the part after its single ':' is not an integer; kill       *)
(* called with such a handle raises before any remote command is issued.   *)
(***************************************************************************)
Colons(text) == Cardinality({i \in 1..Len(text) : text[i] = ":"})
AfterColon(text) ==
    LET i == CHOOSE k \in 1..Len(text) : text[k] = ":"
    IN SubSeq(text, i + 1, Len(text))
MalformedHandle(text) == Colons(text) # 1 \/ ~ParseInt(AfterColon(text)).ok

C15_MalformedHandleFails ==
    (pure.kind \in {"pair", "handle"} /\ pure.stage \in {"encoded", "decoded"}
        /\ MalformedHandle(pure.text))
        => /\ pure.stage = "decoded" => ~pure.parsed[1].ok
           /\ kills > 0 => (killOutcome = "ValueError" /\ killResult = None
                            /\ cmds = {})

C15_Witness ==
    /\ pure.kind = "handle"
    /\ pure.text = <<"a", ":", "b", ":", "7">>
    /\ pure.stage = "decoded"
    /\ ~pure.parsed[1].ok
    /\ kills = 1
    /\ killOutcome = "ValueError"
    /\ cmds = {}

(***************************************************************************)
(* C17: the submit command is the words sbatch, --parsable and then one    *)
(* flag per option in insertion order, --key for an option without value   *)
(* and --key=value otherwise; {nodes: 1, parsable: None} renders --nodes=1 *)
(* before --parsable.                                                      *)
(***************************************************************************)
C17_SubmitCommandWords ==
    (pure.kind = "kwargs" /\ pure.stage = "rendered")
        => LET words == SplitOn(pure.cmd, " ")
               d == pure.kwargs
           IN /\ Len(words) = Len(d) + 2
              /\ words[1] = S_sbatch
              /\ words[2] = S_parsable_flag
              /\ \A i \in 1..Len(d) :
                    words[i + 2] = (IF d[i][2] = None THEN <<"-", "-">> \o d[i][1]
                                    ELSE <<"-", "-">> \o d[i][1] \o <<"=">> \o d[i][2][1])
              /\ d = slurm_kwargs_field => pure.cmd = (<<"s", "b", "a", "t", "c", "h", " ", "-", "-", "p", "a", "r", "s", "a", "b", "l", "e", " ", "-", "-", "n", "o", "d", "e", "s", "=", "1", " ", "-", "-", "p", "a", "r", "s", "a", "b", "l", "e">>)

C17_Witness ==
    /\ pure.kind = "kwargs"
    /\ pure.stage = "rendered"
    /\ pure.kwargs = slurm_kwargs_field
    /\ pure.cmd = (<<"s", "b", "a", "t", "c", "h", " ", "-", "-", "p", "a", "r", "s", "a", "b", "l", "e", " ", "-", "-", "n", "o", "d", "e", "s", "=", "1", " ", "-", "-", "p", "a", "r", "s", "a", "b", "l", "e">>)

(***************************************************************************)
(* C16: the cancel command issued by SlurmJob.kill carries the caller's    *)
(* grace_seconds as its timeout, whatever its value.                       *)
(***************************************************************************)
C16_KillAppliesGraceSeconds ==
    \A c \in cmds :
        (c.by = "kill" /\ kills = 1) => (killGrace # None /\ c.timeout = killGrace[1])

C18_Terminated ==
    /\ pc = "returned"
    /\ retval \in {Some(0), Some(-1)}
    /\ (\A i \in 1..Len(obs) : obs[i] = "UNDEFINED") => retval = Some(-1)

C18_WatchTerminates == settled ~> C18_Terminated

C18_Witness ==
    /\ settled
    /\ pc = "returned"
    /\ obs = <<"UNDEFINED", "UNDEFINED", "UNDEFINED">>
    /\ retval = Some(-1)

(***************************************************************************)
(* C19: a kill issued while the job is watched changes nothing the watch   *)
(* reads or writes and does not end it: the watch ends only when the       *)
(* answer of a status poll is reduced.  If a job seen before the kill is   *)
(* afterwards reported with an unrecognised state (UNKNOWN, e.g. for       *)
(* CANCELLED) and later without record (UNDEFINED), the watch returns 0.   *)
(***************************************************************************)
C19_Step ==
    /\ kills' # kills => UNCHANGED <<runVars, watchVars, now, afterVars>>
    /\ (pc # "returned" /\ pc' = "returned") => (Reduced /\ kills' = kills)
    /\ retval' # retval => (Reduced /\ kills' = kills)

C19_State ==
    (/\ pc = "returned"
     /\ killedAt # None
     /\ \E i \in 1..killedAt[1] : obs[i] # "UNDEFINED"
     /\ \E j \in (killedAt[1] + 1)..(Len(obs) - 1) : obs[j] = "UNKNOWN"
     /\ Last(obs) = "UNDEFINED")
        => retval = Some(0)

C19_KillLeavesWatchAlone == []C19_State /\ [][C19_Step]_vars

C19_Witness ==
    /\ kills = 1
    /\ killedAt = Some(1)
    /\ killOutcome = "returned"
    /\ obs = <<"RUNNING", "UNKNOWN", "UNDEFINED">>
    /\ pc = "returned"
    /\ retval = Some(0)

====
